---- MODULE Spec2Model ----
(***************************************************************************)
(* Model of src/sizing_app.py: the Streamlit sizing calculator.  Every     *)
(* interaction (selecting a file, moving a sidebar widget) re-runs the     *)
(* whole script, so every action below sets one input and recomputes the   *)
(* pipeline: format detection, the RVTools / Live Optics adapter, the      *)
(* sizing computation and the assembly of report_data.                     *)
(*                                                                         *)
(* Numbers: cell values are integers; every value the script derives by a  *)
(* division is kept as an exact fraction [n, d] in lowest terms, so the    *)
(* model follows the arithmetic of the code without the rounding of IEEE   *)
(* doubles.                                                                *)
(***************************************************************************)
EXTENDS Integers, Sequences, FiniteSets, TLC

----------------------------------------------------------------------------
(* Exact fractions *)

Abs(x) == IF x < 0 THEN -x ELSE x

\* the element of a one-element set: Only({F(x) : x \in {e}}) is F(e) with e
\* evaluated once
Only(S) == CHOOSE x \in S : TRUE

RECURSIVE GCD(_, _)
GCD(a, b) == IF b = 0 THEN a ELSE GCD(b, a % b)

\* the fraction n/d (d # 0) in lowest terms with a positive denominator
Rat(n, d) ==
    Only({[n |-> (IF y < 0 THEN -x ELSE x) \div g, d |-> Abs(y) \div g] :
            <<x, y, g>> \in {<<n, d, GCD(Abs(n), Abs(d))>>}})

RInt(i) == [n |-> i, d |-> 1]
RZero == RInt(0)
RAdd(a, b) == Only({Rat(x.n * y.d + y.n * x.d, x.d * y.d) : <<x, y>> \in {<<a, b>>}})
RSub(a, b) == Only({Rat(x.n * y.d - y.n * x.d, x.d * y.d) : <<x, y>> \in {<<a, b>>}})
\* cross-reduced before multiplying, so the products stay small
RMul(a, b) ==
    Only({[n |-> p.n * q.n, d |-> p.d * q.d] :
            <<p, q>> \in {<<Rat(x.n, y.d), Rat(y.n, x.d)>> : <<x, y>> \in {<<a, b>>}}})
\* a / b, b # 0
RDiv(a, b) == Only({RMul(a, Rat(y.d, y.n)) : y \in {b}})
RLess(a, b) == Only({x.n * y.d < y.n * x.d : <<x, y>> \in {<<a, b>>}})
RLeq(a, b) == Only({x.n * y.d <= y.n * x.d : <<x, y>> \in {<<a, b>>}})
RIsZero(a) == a.n = 0

RECURSIVE RPow(_, _)
RPow(a, k) == IF k = 0 THEN RInt(1) ELSE RMul(a, RPow(a, k - 1))

\* math.ceil of a fraction
Ceil(a) == Only({-((-x.n) \div x.d) : x \in {a}})

Max(a, b) == IF a >= b THEN a ELSE b

----------------------------------------------------------------------------
(* Cells and tables (pandas DataFrames read from the workbook) *)

Num(i) == [k |-> "num", n |-> i, s |-> ""]
Str(t) == [k |-> "str", n |-> 0, s |-> t]
NaN == [k |-> "nan", n |-> 0, s |-> ""]

IsNum(c) == c.k = "num"
IsStr(c) == c.k = "str"
IsNaN(c) == c.k = "nan"

\* a DataFrame: its column labels and its rows, each a function from the
\* labels to cells
Table(cols, rows) == [columns |-> cols, rows |-> rows]
EmptyFrame == Table({}, <<>>)
IsEmpty(df) == df.rows = <<>> \/ df.columns = {}

\* df[mask]: the rows for which keep holds, the columns unchanged
Filter(df, keep(_)) == Table(df.columns, SelectSeq(df.rows, keep))

\* the characters of the text cells of the model that hold digits
Spelling ==
    [t \in {"12", "1,234"} |->
        IF t = "12" THEN <<"1", "2">> ELSE <<"1", ",", "2", "3", "4">>]

Digits == <<"0", "1", "2", "3", "4", "5", "6", "7", "8", "9">>
IsDigit(ch) == \E i \in DOMAIN Digits : Digits[i] = ch
DigitValue(ch) == (CHOOSE i \in DOMAIN Digits : Digits[i] = ch) - 1

\* the number a sequence of characters spells, [ok, n]: ok only for a
\* non-empty run of digits
RECURSIVE ParseDigits(_, _)
ParseDigits(chars, acc) ==
    IF chars = <<>> THEN [ok |-> TRUE, n |-> acc]
    ELSE IF ~IsDigit(Head(chars)) THEN [ok |-> FALSE, n |-> 0]
    ELSE ParseDigits(Tail(chars), 10 * acc + DigitValue(Head(chars)))

\* a coercion that strips the thousands separators before it reads the digits
to_numeric_commas(c) ==
    IF IsNum(c) THEN c
    ELSE IF IsStr(c) /\ c.s \in DOMAIN Spelling
        THEN LET p == ParseDigits(SelectSeq(Spelling[c.s], LAMBDA ch : ch # ","), 0)
             IN  IF p.ok THEN Num(p.n) ELSE NaN
    ELSE NaN

\* pd.to_numeric(cell, errors='coerce'): a number as it is, a text that
\* spells a number as that number, anything else NaN
to_numeric(c) ==
    IF IsNum(c) THEN c
    ELSE IF IsStr(c) /\ c.s \in DOMAIN Spelling
        THEN LET p == ParseDigits(Spelling[c.s], 0)
             IN  IF p.ok /\ Spelling[c.s] # <<>> THEN Num(p.n) ELSE NaN
    ELSE NaN

\* the contribution of one cell to the NaN-skipping sum of the coerced column
Coerced(c) == LET v == to_numeric(c) IN IF IsNum(v) THEN v.n ELSE 0

RECURSIVE SumCol(_, _)
SumCol(rows, col) ==
    IF rows = <<>> THEN 0 ELSE Coerced(Head(rows)[col]) + SumCol(Tail(rows), col)

safe_sum_absent(df, col) ==
    IF col \in df.columns THEN SumCol(df.rows, col) ELSE -1

safe_sum(df, col) ==
    IF col \in df.columns THEN SumCol(df.rows, col) ELSE 0

----------------------------------------------------------------------------
(* Helper functions of the script *)

Mi == 1048576
Ki == 1024
LicenseFloor == 16

\* get_rvtools_tb: the first of "<base> MiB", "<base> MB", "<base> TB",
\* "<base> GB" that is a column of df, summed and converted to terabytes
get_rvtools_tb_gb1000(df, base) ==
    IF (base \o " MiB") \in df.columns
        THEN Rat(safe_sum(df, base \o " MiB"), Mi)
    ELSE IF (base \o " MB") \in df.columns
        THEN Rat(safe_sum(df, base \o " MB"), Mi)
    ELSE IF (base \o " TB") \in df.columns
        THEN RInt(safe_sum(df, base \o " TB"))
    ELSE IF (base \o " GB") \in df.columns
        THEN Rat(safe_sum(df, base \o " GB"), 1000)
    ELSE RZero

get_rvtools_tb(df, base) ==
    IF (base \o " MiB") \in df.columns
        THEN Rat(safe_sum(df, base \o " MiB"), Mi)
    ELSE IF (base \o " MB") \in df.columns
        THEN Rat(safe_sum(df, base \o " MB"), Mi)
    ELSE IF (base \o " TB") \in df.columns
        THEN RInt(safe_sum(df, base \o " TB"))
    ELSE IF (base \o " GB") \in df.columns
        THEN Rat(safe_sum(df, base \o " GB"), Ki)
    ELSE RZero

calc_license_cores(sockets, cores_per_socket) ==
    sockets * Max(cores_per_socket, LicenseFloor)

----------------------------------------------------------------------------
(* Outcomes.  A step either yields a value or raises; err is "none" or the
   Python exception that the statement raises. *)

Some(x) == <<x>>
None == <<>>


ALL_CLUSTERS == "All Clusters"
\* st.selectbox over an empty option list returns None
NO_SELECTION == "<None>"

\* the order sorted() gives the cluster names of the model
ClusterOrder == <<"A", "B">>
ClusterNames == {ClusterOrder[i] : i \in DOMAIN ClusterOrder}

\* the strings of the model that contain 'poweredon' when lower-cased
PoweredOnStrings == {"poweredOn", "PoweredOn"}

\* the datastore names of the model that contain 'local' when lower-cased
LocalStrings == {"local-ds", "Local1"}

\* the frame left as it is, whatever the selected cluster
ClusterScope_unfiltered(df, selected_cluster) == df

\* df[df['Cluster'] == selected_cluster], applied when the sheet has the
\* column and a cluster is selected

ClusterScope(df, selected_cluster) ==
    IF "Cluster" \in df.columns /\ selected_cluster # ALL_CLUSTERS
    THEN LET InScope(row) == IsStr(row["Cluster"]) /\ row["Cluster"].s = selected_cluster
         IN  Filter(df, InScope)
    ELSE df

\* df[df[col].astype(str).str.contains('poweredOn', case=False, na=False)],
\* applied when the sheet has the column and powered-off VMs are excluded
PowerScope(df, col, include_off) ==
    IF col \in df.columns /\ ~include_off
    THEN LET IsOn(row) == IsStr(row[col]) /\ row[col].s \in PoweredOnStrings
         IN  Filter(df, IsOn)
    ELSE df

\* Series.max(): KeyError for an absent column, TypeError when the column
\* mixes strings and numbers, otherwise the largest number (NaN if none)
ColMax(df, col) ==
    IF col \notin df.columns THEN [err |-> "KeyError", v |-> NaN]
    ELSE LET nums == {df.rows[i][col].n : i \in {j \in DOMAIN df.rows : IsNum(df.rows[j][col])}}
             strs == {i \in DOMAIN df.rows : IsStr(df.rows[i][col])}
         IN  IF strs # {} /\ nums # {}
                 THEN [err |-> "TypeError", v |-> NaN]
             ELSE IF strs # {}
                 THEN [err |-> "none", v |-> df.rows[CHOOSE i \in strs : TRUE][col]]
             ELSE IF nums = {} THEN [err |-> "none", v |-> NaN]
             ELSE [err |-> "none", v |-> Num(CHOOSE m \in nums : \A x \in nums : x <= m)]

----------------------------------------------------------------------------
(* The adapters.  Each returns [err, db]: db is the dictionary the function
   returns, meaningful when err = "none". *)

HasSheet(sheets, name) == name \in DOMAIN sheets

\* the first error of a sequence of steps, in the order the code runs them
FirstErr(errs) ==
    IF \E i \in DOMAIN errs : errs[i] # "none"
    THEN errs[CHOOSE i \in DOMAIN errs :
                 errs[i] # "none" /\ \A j \in DOMAIN errs : j < i => errs[j] = "none"]
    ELSE "none"

\* where a step raised: the exception and the line of the script
At(e, line) == IF e = "none" THEN "none" ELSE e \o "@" \o line

\* one host row's term of the RVTools licensing sum (line 360), which no try
\* protects: max() of a string and 16 raises TypeError, a NaN field makes the
\* term NaN.  [err, nan, v]
LicTermNoTry(sockets, cores) ==
    IF IsStr(cores) \/ IsStr(sockets) THEN [err |-> "TypeError@360", nan |-> FALSE, v |-> RZero]
    ELSE IF IsNaN(cores) \/ IsNaN(sockets) THEN [err |-> "none", nan |-> TRUE, v |-> RZero]
    ELSE [err |-> "none", nan |-> FALSE,
          v |-> RInt(calc_license_cores(sockets.n, cores.n))]

\* cur_lic_cores after the loop over the rows' terms: the loop raises where
\* a term raises, and the sum is NaN where a term is NaN
RECURSIVE LicSum(_)
LicSum(terms) ==
    IF terms = <<>> THEN [err |-> "none", nan |-> FALSE, v |-> RZero]
    ELSE LET t == Head(terms)
             r == LicSum(Tail(terms))
         IN  [err |-> IF t.err # "none" THEN t.err ELSE r.err,
              nan |-> t.nan \/ r.nan,
              v |-> RAdd(t.v, r.v)]

\* sum over the rows of '# CPU' * 'Cores per CPU' where both are numbers
\* (pd.to_numeric(df_h['TC'], errors='coerce').sum())
RECURSIVE SumProduct(_, _, _)
SumProduct(rows, a, b) ==
    IF rows = <<>> THEN 0
    ELSE (IF IsNum(Head(rows)[a]) /\ IsNum(Head(rows)[b])
          THEN Head(rows)[a].n * Head(rows)[b].n ELSE 0)
         + SumProduct(Tail(rows), a, b)

\* lines 400-401 and 499-500: the largest vCPU count, looked for only when
\* the VM frame is not empty
max_vm_cpu_unguarded(df, col) == ColMax(df, col)

max_vm_cpu(df, col) ==
    IF IsEmpty(df) THEN [err |-> "none", v |-> Num(0)] ELSE ColMax(df, col)

\* the vInfo part of process_rvtools: scope filters, then 'Memory GB'
rv_info(sheets, selected_cluster, include_off) ==
    PowerScope(ClusterScope(sheets["vInfo"], selected_cluster), "Powerstate", include_off)

\* whether df_info has a 'Memory GB' column after line 332 derived it
HasMemoryGB(df) == "Memory GB" \in df.columns \/ "Memory" \in df.columns

\* safe_sum(df_info, 'Memory GB'): the sheet's own column, or the one derived
\* as to_numeric(Memory) / 1024, or 0 when there is neither
SumMemoryGB(df) ==
    IF "Memory GB" \in df.columns THEN RInt(safe_sum(df, "Memory GB"))
    ELSE IF "Memory" \in df.columns THEN Rat(SumCol(df.rows, "Memory"), Ki)
    ELSE RZero

\* df_info['Memory GB'].max()
MaxMemoryGB(df) ==
    IF "Memory GB" \in df.columns
        THEN LET m == ColMax(df, "Memory GB")
             IN  [err |-> m.err, nan |-> ~IsNum(m.v), v |-> RInt(m.v.n)]
    ELSE IF "Memory" \in df.columns
        THEN LET nums == {df.rows[i]["Memory"].n :
                            i \in {j \in DOMAIN df.rows : IsNum(df.rows[j]["Memory"])}}
             IN  IF nums = {} THEN [err |-> "none", nan |-> TRUE, v |-> RZero]
                 ELSE [err |-> "none", nan |-> FALSE,
                       v |-> Rat(CHOOSE m \in nums : \A x \in nums : x <= m, Ki)]
    ELSE [err |-> "KeyError", nan |-> TRUE, v |-> RZero]

\* the numbers of a column, one per row whose cell is a number
NumbersOf(rows, col) ==
    LET idx == SelectSeq([i \in DOMAIN rows |-> i], LAMBDA i : IsNum(rows[i][col]))
    IN  [k \in DOMAIN idx |-> RInt(rows[idx[k]][col].n)]

\* Series.mode()[0]: the most frequent of the values that are not NaN, the
\* smallest of them on a tie; None where [0] raises IndexError (no value)
ModeOf(vals) ==
    IF vals = <<>> THEN None
    ELSE LET S == {vals[i] : i \in DOMAIN vals}
             Count(v) == Cardinality({i \in DOMAIN vals : vals[i] = v})
             best == {v \in S : \A w \in S : Count(w) <= Count(v)}
         IN  Some(CHOOSE v \in best : \A w \in best : RLeq(v, w))

\* lines 350-356: the NUMA estimate of process_rvtools over a non-empty
\* host frame that has the three columns; an exception inside the try leaves
\* both estimates at 0.  (The host rows of the model have a socket or more;
\* a text cell ends the run at line 360, whatever the estimate.)
rv_numa(df_h) ==
    LET sockets == ModeOf(NumbersOf(df_h.rows, "# CPU"))
        cores == ModeOf(NumbersOf(df_h.rows, "Cores per CPU"))
        ram == ModeOf(NumbersOf(df_h.rows, "# Memory"))
    IN  IF sockets = None \/ cores = None \/ ram = None
        THEN [cores |-> RZero, ram |-> RZero]
        ELSE [cores |-> cores[1],
              ram |-> RDiv(RDiv(ram[1], RInt(Ki)), sockets[1])]

\* lines 473-480: the NUMA estimate of process_live_optics; the RAM per
\* socket is the hosts' total RAM over their number, over the socket mode.
\* A missing column (KeyError), a text cell (TypeError in the division of
\* line 476) or a column without a number (IndexError) leaves both at 0
lo_numa(df_h, cur_total_ram_gb) ==
    LET zero == [cores |-> RZero, ram |-> RZero]
    IN  IF IsEmpty(df_h) \/ ~({"CPU Sockets", "CPU Cores"} \subseteq df_h.columns) THEN zero
        ELSE LET sockets == ModeOf(NumbersOf(df_h.rows, "CPU Sockets"))
                 both == SelectSeq(df_h.rows,
                            LAMBDA r : IsNum(r["CPU Sockets"]) /\ IsNum(r["CPU Cores"]))
                 cores == ModeOf([i \in DOMAIN both |->
                            Rat(both[i]["CPU Cores"].n, both[i]["CPU Sockets"].n)])
                 text == \E i \in DOMAIN df_h.rows :
                            IsStr(df_h.rows[i]["CPU Sockets"]) \/ IsStr(df_h.rows[i]["CPU Cores"])
             IN  IF sockets = None \/ text \/ cores = None THEN zero
                 ELSE [cores |-> cores[1],
                       ram |-> RDiv(RDiv(cur_total_ram_gb, RInt(Len(df_h.rows))), sockets[1])]

\* lines 340-343: the hosts of the selected cluster
rv_df_h(sheets, selected_cluster) == ClusterScope(sheets["vHost"], selected_cluster)

\* the vHost part of process_rvtools (lines 335-364)
rv_hosts(sheets, selected_cluster) ==
    LET zero == [err |-> "none", cur_cores |-> 0, cur_host_count |-> 0,
                 cur_total_ram_gb |-> RZero,
                 cur_lic_cores |-> [nan |-> FALSE, v |-> RZero],
                 numa |-> [cores |-> RZero, ram |-> RZero]]
    IN
    IF ~HasSheet(sheets, "vHost") THEN zero
    ELSE LET df_h == rv_df_h(sheets, selected_cluster)
             LicTerm(row) == LicTermNoTry(row["# CPU"], row["Cores per CPU"])
         IN
         IF IsEmpty(df_h) THEN [zero EXCEPT !.cur_host_count = Len(df_h.rows)]
         ELSE IF ~({"# CPU", "Cores per CPU"} \subseteq df_h.columns)
             THEN [zero EXCEPT !.err = "KeyError@347"]
         ELSE IF "# Memory" \notin df_h.columns
             THEN [zero EXCEPT !.err = "KeyError@349"]
         ELSE LET lic == LicSum([i \in DOMAIN df_h.rows |-> LicTerm(df_h.rows[i])])
              IN  [err |-> lic.err,
                   cur_cores |-> SumProduct(df_h.rows, "# CPU", "Cores per CPU"),
                   cur_host_count |-> Len(df_h.rows),
                   cur_total_ram_gb |-> Rat(SumCol(df_h.rows, "# Memory"), Ki),
                   cur_lic_cores |-> [nan |-> lic.nan, v |-> lic.v],
                   numa |-> rv_numa(df_h)]

\* lines 369-373: the shared (not local) datastores of the selected cluster
rv_df_ds(sheets, selected_cluster) ==
    LET raw == sheets["vDatastore"]
        NotLocal(row) == ~(IsStr(row["Name"]) /\ row["Name"].s \in LocalStrings)
    IN  ClusterScope(IF "Name" \in raw.columns THEN Filter(raw, NotLocal) ELSE raw,
                     selected_cluster)

\* the vDatastore part of process_rvtools (lines 367-378)
rv_datastore(sheets, selected_cluster) ==
    IF ~HasSheet(sheets, "vDatastore")
    THEN [cap |-> RZero, used |-> RZero, free |-> RZero, prov |-> RZero, note |-> "Global"]
    ELSE LET scoped == "Cluster" \in sheets["vDatastore"].columns
                        /\ selected_cluster # ALL_CLUSTERS
             df_ds == rv_df_ds(sheets, selected_cluster)
             cap == get_rvtools_tb(df_ds, "Capacity")
             used == get_rvtools_tb(df_ds, "In Use")
         IN  [cap |-> cap, used |-> used, free |-> RSub(cap, used),
              prov |-> get_rvtools_tb(df_ds, "Provisioned"),
              note |-> IF scoped THEN "Filtered to " \o selected_cluster ELSE "Global"]

process_rvtools(sheets, selected_cluster, include_off) ==
    LET df_info == rv_info(sheets, selected_cluster, include_off)
        h == rv_hosts(sheets, selected_cluster)
        ds == rv_datastore(sheets, selected_cluster)
        mc == max_vm_cpu(df_info, "CPUs")
        mr == IF IsEmpty(df_info) THEN [err |-> "none", nan |-> FALSE, v |-> RZero]
              ELSE MaxMemoryGB(df_info)
    IN  [err |-> FirstErr(<<h.err, At(mc.err, "401"), At(mr.err, "402")>>),
         db |-> [source |-> "RVTools",
                 tot_vms |-> Len(df_info.rows),
                 tot_vcpu |-> safe_sum(df_info, "CPUs"),
                 tot_ram |-> SumMemoryGB(df_info),
                 vinfo_prov |-> get_rvtools_tb(df_info, "Provisioned"),
                 vinfo_used |-> get_rvtools_tb(df_info, "In Use"),
                 max_vm_cpu |-> mc.v,
                 max_vm_ram |-> [nan |-> mr.nan, v |-> mr.v],
                 cur_cores |-> h.cur_cores,
                 cur_host_count |-> h.cur_host_count,
                 cur_total_ram_gb |-> h.cur_total_ram_gb,
                 cur_lic_cores |-> h.cur_lic_cores,
                 cur_numa_cores_est |-> h.numa.cores,
                 cur_numa_ram_est |-> h.numa.ram,
                 ds |-> ds,
                 has_perf |-> FALSE,
                 perf_ghz_demand |-> RZero,
                 df_raw_vinfo |-> df_info]]

RMax(a, b) == IF RLeq(b, a) THEN a ELSE b

\* one host row's term of the Live Optics licensing sum (line 483): the
\* try/except skips a row whose fields are absent or not numbers; a NaN
\* field raises nothing and makes the term NaN
LicTermTry(df, row) ==
    IF ~({"CPU Sockets", "CPU Cores"} \subseteq df.columns)
        THEN [err |-> "none", nan |-> FALSE, v |-> RZero]
    ELSE LET sockets == row["CPU Sockets"]
             cores == row["CPU Cores"]
         IN  IF IsStr(sockets) \/ IsStr(cores)
                 THEN [err |-> "none", nan |-> FALSE, v |-> RZero]
             ELSE IF IsNaN(sockets) \/ IsNaN(cores)
                 THEN [err |-> "none", nan |-> TRUE, v |-> RZero]
             ELSE IF sockets.n = 0
                 THEN [err |-> "none", nan |-> FALSE, v |-> RZero]
             ELSE [err |-> "none", nan |-> FALSE,
                   v |-> RMul(RInt(sockets.n),
                              RMax(Rat(cores.n, sockets.n), RInt(LicenseFloor)))]

\* the Host Devices part of process_live_optics (lines 435-442)
lo_storage(sheets) ==
    LET df_dev == IF HasSheet(sheets, "Host Devices") THEN sheets["Host Devices"]
                  ELSE EmptyFrame
    IN  IF IsEmpty(df_dev)
        THEN [cap |-> RZero, used |-> RZero, free |-> RZero, prov |-> RZero,
              note |-> "Global"]
        ELSE [cap |-> Rat(safe_sum(df_dev, "Capacity (GiB)"), Ki),
              used |-> Rat(safe_sum(df_dev, "Used Capacity (GiB)"), Ki),
              free |-> Rat(safe_sum(df_dev, "Free Capacity (GiB)"), Ki),
              prov |-> RZero,
              note |-> "Derived from Host Devices (LUNs)"]

\* df_vm['Provisioned Memory (MiB)'].max() / 1024
MaxMemoryMiB(df) ==
    LET m == ColMax(df, "Provisioned Memory (MiB)")
    IN  IF m.err # "none" THEN [err |-> m.err, nan |-> TRUE, v |-> RZero]
        ELSE IF IsStr(m.v) THEN [err |-> "TypeError", nan |-> TRUE, v |-> RZero]
        ELSE [err |-> "none", nan |-> IsNaN(m.v), v |-> Rat(m.v.n, Ki)]

\* the option labels of the "Live Optics Basis" radio (lines 271-276)
BasisOptions == <<"95th Percentile", "Peak CPU", "Average CPU">>

\* the hundredths of the peak taken as the 95th percentile (line 458)
PeakShare == 95

\* lines 445-464: the GHz demand of the performance sheet under the chosen
\* basis, over the rows of the selected cluster.  [has_perf, perf_ghz_demand]
lo_perf(sheets, selected_cluster, perf_metric) ==
    IF ~HasSheet(sheets, "ESX Performance")
    THEN [has_perf |-> FALSE, perf_ghz_demand |-> RZero]
    ELSE LET df_perf == ClusterScope(sheets["ESX Performance"], selected_cluster)
         IN  [has_perf |-> TRUE,
              perf_ghz_demand |->
                 IF perf_metric = "95th Percentile"
                 THEN (IF "95th Percentile CPU (GHz)" \in df_perf.columns
                       THEN RInt(safe_sum(df_perf, "95th Percentile CPU (GHz)"))
                       ELSE Rat(safe_sum(df_perf, "Peak CPU (GHz)") * PeakShare, 100))
                 ELSE IF perf_metric = "Peak CPU"
                 THEN RInt(safe_sum(df_perf, "Peak CPU (GHz)"))
                 ELSE RInt(safe_sum(df_perf, "Average CPU (GHz)"))]

\* the VMs part of process_live_optics (lines 421-426)
lo_vms(sheets, selected_cluster, include_off) ==
    PowerScope(ClusterScope(sheets["VMs"], selected_cluster), "Power State", include_off)

\* the ESX Hosts part of process_live_optics (lines 429-432)
lo_hosts(sheets, selected_cluster) ==
    ClusterScope(IF HasSheet(sheets, "ESX Hosts") THEN sheets["ESX Hosts"] ELSE EmptyFrame,
                 selected_cluster)

process_live_optics(sheets, selected_cluster, include_off, perf_metric) ==
    LET df_vm == lo_vms(sheets, selected_cluster, include_off)
        perf == lo_perf(sheets, selected_cluster, perf_metric)
        df_h == lo_hosts(sheets, selected_cluster)
        lic == IF IsEmpty(df_h) THEN [err |-> "none", nan |-> FALSE, v |-> RZero]
               ELSE LicSum([i \in DOMAIN df_h.rows |-> LicTermTry(df_h, df_h.rows[i])])
        numa == lo_numa(df_h, Rat(safe_sum(df_h, "Memory (KiB)"), Ki * Ki))
        mc == max_vm_cpu(df_vm, "Virtual CPU")
        mr == IF IsEmpty(df_vm) THEN [err |-> "none", nan |-> FALSE, v |-> RZero]
              ELSE MaxMemoryMiB(df_vm)
    IN  [err |-> FirstErr(<<lic.err, At(mc.err, "500"), At(mr.err, "501")>>),
         db |-> [source |-> "LiveOptics",
                 tot_vms |-> Len(df_vm.rows),
                 tot_vcpu |-> safe_sum(df_vm, "Virtual CPU"),
                 tot_ram |-> Rat(safe_sum(df_vm, "Provisioned Memory (MiB)"), Ki),
                 vinfo_prov |-> Rat(safe_sum(df_vm, "Virtual Disk Size (MiB)"), Mi),
                 vinfo_used |-> Rat(safe_sum(df_vm, "Virtual Disk Used (MiB)"), Mi),
                 max_vm_cpu |-> mc.v,
                 max_vm_ram |-> [nan |-> mr.nan, v |-> mr.v],
                 cur_cores |-> safe_sum(df_h, "CPU Cores"),
                 cur_host_count |-> Len(df_h.rows),
                 cur_total_ram_gb |-> Rat(safe_sum(df_h, "Memory (KiB)"), Ki * Ki),
                 cur_lic_cores |-> [nan |-> lic.nan, v |-> lic.v],
                 cur_numa_cores_est |-> numa.cores,
                 cur_numa_ram_est |-> numa.ram,
                 ds |-> lo_storage(sheets),
                 has_perf |-> perf.has_perf,
                 perf_ghz_demand |-> perf.perf_ghz_demand,
                 df_raw_vinfo |-> df_vm]]

----------------------------------------------------------------------------
(* Format detection and the sizing computation (lines 521-610) *)

source_type_vms_only(sheets) ==
    IF HasSheet(sheets, "vInfo") THEN "RVTools"
    ELSE IF HasSheet(sheets, "VMs") THEN "LiveOptics"
    ELSE "Unknown"

\* line 524-534: which adapter the sheet names select
source_type(sheets) ==
    IF HasSheet(sheets, "vInfo") THEN "RVTools"
    ELSE IF HasSheet(sheets, "VMs") /\ HasSheet(sheets, "ESX Hosts") THEN "LiveOptics"
    ELSE "Unknown"

cluster_source(sheets) ==
    IF HasSheet(sheets, "vInfo") THEN sheets["vInfo"] ELSE sheets["VMs"]

\* sorted(cluster_source['Cluster'].dropna().unique()), as a set
clusters(sheets) ==
    LET src == cluster_source(sheets)
    IN  IF "Cluster" \in src.columns
        THEN {src.rows[i]["Cluster"].s : i \in {j \in DOMAIN src.rows : IsStr(src.rows[j]["Cluster"])}}
        ELSE {}

FirstSorted(S) ==
    ClusterOrder[CHOOSE i \in DOMAIN ClusterOrder :
                     ClusterOrder[i] \in S /\ \A j \in DOMAIN ClusterOrder : ClusterOrder[j] \in S => i <= j]

\* lines 538-541: the selectbox keeps the user's pick while it is an option,
\* and otherwise shows the first option (None when there is none)
selected_cluster(sheets, pick) ==
    IF "Cluster" \in cluster_source(sheets).columns
    THEN IF pick \in clusters(sheets) THEN pick
         ELSE IF clusters(sheets) = {} THEN NO_SELECTION
         ELSE FirstSorted(clusters(sheets))
    ELSE ALL_CLUSTERS

\* math.ceil(db['tot_vcpu'] / vcpu_ratio / eff_host_cores)
hosts_for_cpu_floor(tot_vcpu, ratio, eff_host_cores) ==
    RDiv(RDiv(tot_vcpu, ratio), eff_host_cores).n \div RDiv(RDiv(tot_vcpu, ratio), eff_host_cores).d

hosts_for_cpu(tot_vcpu, ratio, eff_host_cores) ==
    Ceil(RDiv(RDiv(tot_vcpu, ratio), eff_host_cores))

\* math.ceil(db['tot_ram'] / eff_host_ram)
hosts_for_ram(tot_ram, eff_host_ram) == Ceil(RDiv(tot_ram, eff_host_ram))

\* lines 554-563
constraint_geq(cpu, ram) == IF cpu >= ram THEN "CPU" ELSE "RAM"

constraint(cpu, ram) == IF cpu > ram THEN "CPU" ELSE "RAM"

raw_hosts(cpu, ram) == IF cpu > ram THEN cpu ELSE ram

\* lines 571-572: max(int(raw) + ha_nodes, min_hosts)
final_hosts_no_ha(raw, ha, minh) == Max(raw, minh)

final_hosts(raw, ha, minh) == Max(raw + ha, minh)

\* line 565: (1 + growth) ** years, growth a percentage
mult_shrink(growth_pct, yrs) == RPow(RSub(RInt(1), Rat(growth_pct, 100)), yrs)

mult_times(growth_pct, yrs) == RMul(RAdd(RInt(1), Rat(growth_pct, 100)), RInt(yrs))

mult(growth_pct, yrs) == RPow(RAdd(RInt(1), Rat(growth_pct, 100)), yrs)

\* int(x) of a float: truncation toward zero
TruncInt(r) == IF r.n >= 0 THEN r.n \div r.d ELSE -((-r.n) \div r.d)

\* lines 278, 548-549
host_cap_cores(w) == w.tgt_sockets * w.tgt_cores
eff_host_cores_plus(w) == RMul(RInt(host_cap_cores(w)), RAdd(RInt(2), Rat(w.cpu_buffer, 100)))
eff_host_cores(w) == RMul(RInt(host_cap_cores(w)), RSub(RInt(1), Rat(w.cpu_buffer, 100)))
eff_host_ram(w) == RMul(RInt(w.tgt_ram), RSub(RInt(1), Rat(w.ram_buffer, 100)))

\* lines 551-552 and 565-569: the raw host counts, today and after growth
raw_counts(db, w) ==
    Only({[cpu |-> hosts_for_cpu(RInt(db.tot_vcpu), w.vcpu_ratio, ec),
           ram |-> hosts_for_ram(db.tot_ram, er),
           fut_vcpu |-> RMul(RInt(db.tot_vcpu), m),
           fut_cpu |-> hosts_for_cpu(RMul(RInt(db.tot_vcpu), m), w.vcpu_ratio, ec),
           fut_ram |-> hosts_for_ram(RMul(db.tot_ram, m), er)] :
            <<ec, er, m>> \in {<<eff_host_cores(w), eff_host_ram(w), mult(w.growth, w.years)>>}})

\* lines 554-572: constraint, raw_hosts, hosts_now, hosts_fut
host_counts(rc, w) ==
    [constraint |-> constraint(rc.cpu, rc.ram),
     raw_hosts |-> raw_hosts(rc.cpu, rc.ram),
     fut_raw_hosts |-> Max(rc.fut_cpu, rc.fut_ram),
     hosts_now |-> final_hosts(raw_hosts(rc.cpu, rc.ram), w.ha_nodes, w.min_hosts),
     hosts_fut |-> final_hosts(Max(rc.fut_cpu, rc.fut_ram), w.ha_nodes, w.min_hosts)]

\* the share of the usable GHz of a node that the recommendation fills
\* (line 584: 0.8), in tenths
PerfFill == 8

\* lines 580-585: the hosts the measured GHz demand needs
perf_hosts_rec_full(db, w) ==
    IF db.has_perf
    THEN Max(Ceil(RDiv(db.perf_ghz_demand,
                       RMul(RMul(RInt(w.tgt_sockets * w.tgt_cores), w.tgt_clock),
                            Rat(100 - w.cpu_buffer, 100))))
             + w.ha_nodes, w.min_hosts)
    ELSE 0

perf_hosts_rec(db, w) ==
    IF db.has_perf
    THEN LET node_ghz_cap == RMul(RInt(w.tgt_sockets * w.tgt_cores), w.tgt_clock)
             node_ghz_usable == RMul(node_ghz_cap, Rat(100 - w.cpu_buffer, 100))
             hosts_needed_ghz == Ceil(RDiv(db.perf_ghz_demand,
                                           RMul(node_ghz_usable, Rat(PerfFill, 10))))
         IN  Max(hosts_needed_ghz + w.ha_nodes, w.min_hosts)
    ELSE 0

\* line 575: the vCPU per physical core of the current hosts, 0 without cores
cur_ratio(db) == IF db.cur_cores > 0 THEN Rat(db.tot_vcpu, db.cur_cores) ELSE RZero

\* line 577: the vCPU per core of the sized cluster with its HA hosts
\* failed, 0 when no host is left
ratio_fail_all_hosts(tot_vcpu, hosts_now, ha, cap) ==
    IF hosts_now - ha > 0 THEN Rat(tot_vcpu, hosts_now * cap) ELSE RZero

ratio_fail(tot_vcpu, hosts_now, ha, cap) ==
    IF hosts_now - ha > 0 THEN Rat(tot_vcpu, (hosts_now - ha) * cap) ELSE RZero

\* lines 574-610: the ratios, the licensing delta and report_data.  The
\* divisions of lines 576 and 578 are not guarded; int() of a NaN licensing
\* sum raises ValueError (lines 599-600)
report(db, w, rc, hc) ==
    [err |-> IF hc.hosts_now * host_cap_cores(w) = 0 \/ hc.hosts_fut * host_cap_cores(w) = 0
                 THEN "ZeroDivisionError@576"
             ELSE IF db.cur_lic_cores.nan THEN "ValueError@599"
             ELSE "none",
     report_data |->
        [hosts_now |-> hc.hosts_now, hosts_fut |-> hc.hosts_fut,
         constraint |-> hc.constraint,
         raw_hosts |-> hc.raw_hosts,
         raw_hosts_cpu |-> rc.cpu, raw_hosts_ram |-> rc.ram,
         fut_raw_hosts |-> hc.fut_raw_hosts,
         fut_vcpu |-> rc.fut_vcpu,
         cur_ratio |-> cur_ratio(db),
         ratio_now |-> IF hc.hosts_now * host_cap_cores(w) = 0 THEN RZero
                       ELSE Rat(db.tot_vcpu, hc.hosts_now * host_cap_cores(w)),
         ratio_fail |-> ratio_fail(db.tot_vcpu, hc.hosts_now, w.ha_nodes, host_cap_cores(w)),
         ratio_fut |-> IF hc.hosts_fut * host_cap_cores(w) = 0 THEN RZero
                       ELSE RDiv(rc.fut_vcpu, RInt(hc.hosts_fut * host_cap_cores(w))),
         has_perf |-> db.has_perf,
         perf_ghz_demand |-> db.perf_ghz_demand,
         perf_hosts_rec |-> perf_hosts_rec(db, w),
         cur_lic_cores |-> TruncInt(db.cur_lic_cores.v),
         fut_lic_cores |-> hc.hosts_fut * calc_license_cores(w.tgt_sockets, w.tgt_cores),
         lic_diff |-> TruncInt(RSub(RInt(hc.hosts_fut
                                         * calc_license_cores(w.tgt_sockets, w.tgt_cores)),
                                    db.cur_lic_cores.v))]]

\* lines 548-610.  w holds the sidebar values.  [err, report_data]
sizing(db, w) ==
    Only({report(db, w, rc, hc) :
            <<rc, hc>> \in {<<r, host_counts(r, w)>> : r \in {raw_counts(db, w)}}})

\* line 40 of generate_html_report compares max_vm_cpu with 0
report_err(db) == IF IsStr(db.max_vm_cpu) THEN "TypeError@40" ELSE "none"

\* One run of the script on the selected workbook: [status, err, db, report_data]
\*   "no_file"      st.stop() at line 314, nothing uploaded
\*   "input_error"  st.error + st.stop() at lines 533-534
\*   "exception"    the except branch at line 704
\*   "ok"           the report was rendered
Pipeline(sheets, w) ==
    LET absent == [status |-> "no_file", err |-> "none", db |-> None, report_data |-> None]
        Adapter(wb) ==
            IF source_type(wb) = "RVTools"
            THEN process_rvtools(wb, selected_cluster(wb, w.cluster_pick), w.include_off)
            ELSE process_live_optics(wb, selected_cluster(wb, w.cluster_pick), w.include_off,
                                     w.lo_basis)
        Report(a, z) ==
            IF FirstErr(<<z.err, report_err(a.db)>>) # "none"
            THEN [absent EXCEPT !.status = "exception",
                                !.err = FirstErr(<<z.err, report_err(a.db)>>)]
            ELSE [status |-> "ok", err |-> "none", db |-> Some(a.db),
                  report_data |-> Some(z.report_data)]
        Sized(a) ==
            IF a.err # "none" THEN [absent EXCEPT !.status = "exception", !.err = a.err]
            ELSE Only({Report(a, z) : z \in {sizing(a.db, w)}})
    IN
    IF sheets = None THEN absent
    ELSE IF source_type(sheets[1]) = "Unknown" THEN [absent EXCEPT !.status = "input_error"]
    ELSE Only({Sized(a) : a \in {Adapter(sheets[1])}})

----------------------------------------------------------------------------
(* State: the selected workbook, the sidebar widgets, and what the last run
   of the script produced *)

VARIABLES uploaded_file, tgt_sockets, tgt_cores, tgt_ram, vcpu_ratio, cpu_buffer,
          ram_buffer, min_hosts, ha_nodes, include_off, growth, years, cluster_pick,
          tgt_clock, lo_basis,
          status, err, db, report_data

widgets == <<tgt_sockets, tgt_cores, tgt_ram, vcpu_ratio, cpu_buffer, ram_buffer,
             min_hosts, ha_nodes, include_off, growth, years, cluster_pick,
             tgt_clock, lo_basis>>
outputs == <<status, err, db, report_data>>
vars == <<uploaded_file, widgets, outputs>>

\* the sidebar values of the current state
W == [tgt_sockets |-> tgt_sockets, tgt_cores |-> tgt_cores, tgt_ram |-> tgt_ram,
      vcpu_ratio |-> vcpu_ratio, cpu_buffer |-> cpu_buffer, ram_buffer |-> ram_buffer,
      min_hosts |-> min_hosts, ha_nodes |-> ha_nodes, include_off |-> include_off,
      growth |-> growth, years |-> years, cluster_pick |-> cluster_pick,
      tgt_clock |-> tgt_clock, lo_basis |-> lo_basis]

\* bounds of the model on the sidebar's ranges
MaxYears == 2

\* values of the sidebar widgets the model draws from (each within the
\* widget's range, lines 266-293)
SocketsSet == {1, 2}
CoresSet == {4, 24}
RamSet == {64, 1024}
RatioSet == {Rat(5, 2), RInt(5)}
CpuBufferSet == {0, 10}
RamBufferSet == {10, 50}
MinHostsSet == {1, 3}
HaSet == {0, 1}
GrowthSet == {0, 10, 100}
ClockSet == {Rat(5, 2), RInt(4)}

\* the script runs top to bottom after every interaction
Rerun ==
    \E r \in {Pipeline(uploaded_file', W')} :
        /\ status' = r.status
        /\ err' = r.err
        /\ db' = r.db
        /\ report_data' = r.report_data

\* the widget defaults (lines 266-293), no file uploaded
Init ==
    /\ uploaded_file = None
    /\ tgt_sockets = 2 /\ tgt_cores = 24 /\ tgt_ram = 1024
    /\ vcpu_ratio = RInt(5) /\ cpu_buffer = 10 /\ ram_buffer = 10
    /\ min_hosts = 3 /\ ha_nodes = 1
    /\ include_off = TRUE /\ growth = 10 /\ years = MaxYears
    /\ cluster_pick = ""
    /\ tgt_clock = Rat(5, 2) /\ lo_basis = BasisOptions[1]
    /\ status = "no_file" /\ err = "none" /\ db = None /\ report_data = None

SetSockets ==
    /\ \E v \in SocketsSet : tgt_sockets' = v
    /\ UNCHANGED <<uploaded_file, tgt_cores, tgt_ram, vcpu_ratio, cpu_buffer, ram_buffer,
                   min_hosts, ha_nodes, include_off, growth, years, cluster_pick, tgt_clock, lo_basis>>
    /\ Rerun

SetCores ==
    /\ \E v \in CoresSet : tgt_cores' = v
    /\ UNCHANGED <<uploaded_file, tgt_sockets, tgt_ram, vcpu_ratio, cpu_buffer, ram_buffer,
                   min_hosts, ha_nodes, include_off, growth, years, cluster_pick, tgt_clock, lo_basis>>
    /\ Rerun

SetRam ==
    /\ \E v \in RamSet : tgt_ram' = v
    /\ UNCHANGED <<uploaded_file, tgt_sockets, tgt_cores, vcpu_ratio, cpu_buffer, ram_buffer,
                   min_hosts, ha_nodes, include_off, growth, years, cluster_pick, tgt_clock, lo_basis>>
    /\ Rerun

SetRatio ==
    /\ \E v \in RatioSet : vcpu_ratio' = v
    /\ UNCHANGED <<uploaded_file, tgt_sockets, tgt_cores, tgt_ram, cpu_buffer, ram_buffer,
                   min_hosts, ha_nodes, include_off, growth, years, cluster_pick, tgt_clock, lo_basis>>
    /\ Rerun

SetCpuBuffer ==
    /\ \E v \in CpuBufferSet : cpu_buffer' = v
    /\ UNCHANGED <<uploaded_file, tgt_sockets, tgt_cores, tgt_ram, vcpu_ratio, ram_buffer,
                   min_hosts, ha_nodes, include_off, growth, years, cluster_pick, tgt_clock, lo_basis>>
    /\ Rerun

SetRamBuffer ==
    /\ \E v \in RamBufferSet : ram_buffer' = v
    /\ UNCHANGED <<uploaded_file, tgt_sockets, tgt_cores, tgt_ram, vcpu_ratio, cpu_buffer,
                   min_hosts, ha_nodes, include_off, growth, years, cluster_pick, tgt_clock, lo_basis>>
    /\ Rerun

SetMinHosts ==
    /\ \E v \in MinHostsSet : min_hosts' = v
    /\ UNCHANGED <<uploaded_file, tgt_sockets, tgt_cores, tgt_ram, vcpu_ratio, cpu_buffer,
                   ram_buffer, ha_nodes, include_off, growth, years, cluster_pick, tgt_clock, lo_basis>>
    /\ Rerun

SetHaNodes ==
    /\ \E v \in HaSet : ha_nodes' = v
    /\ UNCHANGED <<uploaded_file, tgt_sockets, tgt_cores, tgt_ram, vcpu_ratio, cpu_buffer,
                   ram_buffer, min_hosts, include_off, growth, years, cluster_pick, tgt_clock, lo_basis>>
    /\ Rerun

SetIncludeOff ==
    /\ include_off' = ~include_off
    /\ UNCHANGED <<uploaded_file, tgt_sockets, tgt_cores, tgt_ram, vcpu_ratio, cpu_buffer,
                   ram_buffer, min_hosts, ha_nodes, growth, years, cluster_pick, tgt_clock, lo_basis>>
    /\ Rerun

SetGrowth ==
    /\ \E v \in GrowthSet : growth' = v
    /\ UNCHANGED <<uploaded_file, tgt_sockets, tgt_cores, tgt_ram, vcpu_ratio, cpu_buffer,
                   ram_buffer, min_hosts, ha_nodes, include_off, years, cluster_pick, tgt_clock, lo_basis>>
    /\ Rerun

SetYears ==
    /\ \E v \in 1..MaxYears : years' = v
    /\ UNCHANGED <<uploaded_file, tgt_sockets, tgt_cores, tgt_ram, vcpu_ratio, cpu_buffer,
                   ram_buffer, min_hosts, ha_nodes, include_off, growth, cluster_pick, tgt_clock, lo_basis>>
    /\ Rerun

SetClock ==
    /\ \E v \in ClockSet : tgt_clock' = v
    /\ UNCHANGED <<uploaded_file, tgt_sockets, tgt_cores, tgt_ram, vcpu_ratio, cpu_buffer,
                   ram_buffer, min_hosts, ha_nodes, include_off, growth, years, cluster_pick,
                   lo_basis>>
    /\ Rerun

SetBasis ==
    /\ \E i \in DOMAIN BasisOptions : lo_basis' = BasisOptions[i]
    /\ UNCHANGED <<uploaded_file, tgt_sockets, tgt_cores, tgt_ram, vcpu_ratio, cpu_buffer,
                   ram_buffer, min_hosts, ha_nodes, include_off, growth, years, cluster_pick,
                   tgt_clock>>
    /\ Rerun

\* the cluster selectbox exists once a recognised workbook has a Cluster
\* column; its options are that workbook's clusters
SelectCluster ==
    /\ uploaded_file # None
    /\ source_type(uploaded_file[1]) # "Unknown"
    /\ \E c \in clusters(uploaded_file[1]) : cluster_pick' = c
    /\ UNCHANGED <<uploaded_file, tgt_sockets, tgt_cores, tgt_ram, vcpu_ratio, cpu_buffer,
                   ram_buffer, min_hosts, ha_nodes, include_off, growth, years, tgt_clock, lo_basis>>
    /\ Rerun

\* a workbook is uploaded into the empty uploader
UploadFile(workbooks) ==
    /\ uploaded_file = None
    /\ \E wb \in workbooks : uploaded_file' = Some(wb)
    /\ UNCHANGED widgets
    /\ Rerun

\* another of the uploaded workbooks is chosen in "Select File to Analyze"
SwitchFile(workbooks) ==
    /\ uploaded_file # None
    /\ \E wb \in workbooks : uploaded_file' = Some(wb)
    /\ UNCHANGED widgets
    /\ Rerun

\* the uploader is cleared
RemoveFiles ==
    /\ uploaded_file # None
    /\ uploaded_file' = None
    /\ UNCHANGED widgets
    /\ Rerun

----------------------------------------------------------------------------
(* Workbooks of the sizing specification: RVTools exports whose VMs are any
   subset of three VMs (vCPUs, memory in MB); those with the first VM also
   have a vHost sheet with one host of 2 x 12 cores *)

VMKinds == <<[VM |-> Str("vm1"), CPUs |-> Num(57), Memory |-> Num(65536)],
             [VM |-> Str("vm2"), CPUs |-> Num(216), Memory |-> Num(2048)],
             [VM |-> Str("vm3"), CPUs |-> Num(1000), Memory |-> Num(4096000)]>>

SizingWorkbooks ==
    {LET Chosen(row) == \E i \in S : VMKinds[i] = row
         vInfo == "vInfo" :> Table({"VM", "CPUs", "Memory"}, SelectSeq(VMKinds, Chosen))
         vHost == "vHost" :> Table({"Host", "# CPU", "Cores per CPU", "# Memory"},
                                   <<[c \in {"Host", "# CPU", "Cores per CPU", "# Memory"} |->
                                        CASE c = "Host" -> Str("h1")
                                          [] c = "# CPU" -> Num(2)
                                          [] c = "Cores per CPU" -> Num(12)
                                          [] OTHER -> Num(262144)]>>)
     IN  IF 1 \in S THEN vInfo @@ vHost ELSE vInfo
       : S \in {{}, {1}, {2}, {3}, {1, 3}}}

UploadSizing == UploadFile(SizingWorkbooks)
SwitchSizing == SwitchFile(SizingWorkbooks)

NextSizing ==
    \/ UploadSizing \/ SwitchSizing
    \/ SetCores \/ SetRam \/ SetRatio \/ SetCpuBuffer \/ SetRamBuffer
    \/ SetMinHosts \/ SetHaNodes \/ SetGrowth \/ SetYears

SpecSizing == Init /\ [][NextSizing]_vars

----------------------------------------------------------------------------
(* Workbooks of the adapter specification.  Each family varies one part of
   a workbook: the VM sheet, the host sheet, the sheet names, the storage
   sheet. *)

MaxVMs == 2
MaxHosts == 3
MaxStores == 2

SeqsUpTo(S, n) == UNION {[1..k -> S] : k \in 0..n}

\* the rows of a sheet that lacks some columns
Project(rows, cols) == [i \in DOMAIN rows |-> [c \in cols |-> rows[i][c]]]
Sheet(cols, rows) == Table(cols, Project(rows, cols))

\* every way to leave out at most one of the columns in optional
ColumnSets(all, optional) == {all} \cup {all \ {c} : c \in optional}

RvVmRows ==
    {[VM |-> Str("vm1"), Cluster |-> Str("A"), Powerstate |-> Str("poweredOn"),
      CPUs |-> Num(4), Memory |-> Num(8192)],
     [VM |-> Str("vm2"), Cluster |-> Str("B"), Powerstate |-> Str("poweredOff"),
      CPUs |-> Num(8), Memory |-> Num(16384)],
     [VM |-> Str("vm3"), Cluster |-> Str("A"), Powerstate |-> Str("poweredOff"),
      CPUs |-> Num(2), Memory |-> Num(4096)]}
RvVmCols == {"VM", "Cluster", "Powerstate", "CPUs", "Memory"}

RvHostRows ==
    {[Host |-> Str("h1"), Cluster |-> Str("A"), Sockets |-> Num(2), Cores |-> Num(20),
      Mem |-> Num(262144)],
     [Host |-> Str("h2"), Cluster |-> Str("A"), Sockets |-> Num(2), Cores |-> Str("bad"),
      Mem |-> Num(262144)],
     [Host |-> Str("h3"), Cluster |-> Str("A"), Sockets |-> Num(1), Cores |-> Num(16),
      Mem |-> Num(131072)],
     [Host |-> Str("h4"), Cluster |-> Str("B"), Sockets |-> Num(2), Cores |-> NaN,
      Mem |-> Num(262144)],
     [Host |-> Str("h5"), Cluster |-> Str("B"), Sockets |-> Num(2), Cores |-> Num(8),
      Mem |-> Num(65536)]}

\* a host row under the column labels of an RVTools vHost sheet
RvHost(r) ==
    [c \in {"Host", "Cluster", "# CPU", "Cores per CPU", "# Memory"} |->
        CASE c = "# CPU" -> r.Sockets
          [] c = "Cores per CPU" -> r.Cores
          [] c = "# Memory" -> r.Mem
          [] c = "Host" -> r.Host
          [] OTHER -> r.Cluster]
RvHostCols == {"Host", "Cluster", "# CPU", "Cores per CPU", "# Memory"}

\* the same VMs and hosts under the column labels of a Live Optics export;
\* 'CPU Cores' is the host's total, sockets x cores per socket
LoVm(r) ==
    [c \in {"VM Name", "Cluster", "Power State", "Virtual CPU", "Provisioned Memory (MiB)"} |->
        CASE c = "VM Name" -> r.VM
          [] c = "Cluster" -> r.Cluster
          [] c = "Power State" -> r.Powerstate
          [] c = "Virtual CPU" -> r.CPUs
          [] OTHER -> r.Memory]
LoVmCols == {"VM Name", "Cluster", "Power State", "Virtual CPU", "Provisioned Memory (MiB)"}

LoHost(r) ==
    [c \in {"Host Name", "Cluster", "CPU Sockets", "CPU Cores", "Memory (KiB)"} |->
        CASE c = "CPU Sockets" -> r.Sockets
          [] c = "CPU Cores" -> (IF IsNum(r.Cores) THEN Num(r.Sockets.n * r.Cores.n) ELSE r.Cores)
          [] c = "Memory (KiB)" -> Num(r.Mem.n * Ki)
          [] c = "Host Name" -> r.Host
          [] OTHER -> r.Cluster]
LoHostCols == {"Host Name", "Cluster", "CPU Sockets", "CPU Cores", "Memory (KiB)"}

MapSeq(rows, F(_)) == [i \in DOMAIN rows |-> F(rows[i])]

VmSeqs == SeqsUpTo(RvVmRows, MaxVMs)
HostSeqs == SeqsUpTo(RvHostRows, MaxHosts)

\* three VMs over two clusters, one of each cluster powered off
BaseVms ==
    LET vm(name) == CHOOSE r \in RvVmRows : r.VM = Str(name)
    IN  <<vm("vm1"), vm("vm2"), vm("vm3")>>

\* VM sheet varied (rows, one column missing), no host sheet
VmWorkbooks ==
    {("vInfo" :> Sheet(cols, q)) :
        q \in VmSeqs, cols \in ColumnSets(RvVmCols, {"Cluster", "Powerstate", "CPUs", "Memory"})}
    \cup
    {("VMs" :> Sheet(cols, MapSeq(q, LoVm)) @@ "ESX Hosts" :> Sheet(LoHostCols, <<>>)) :
        q \in VmSeqs,
        cols \in ColumnSets(LoVmCols, {"Cluster", "Power State", "Virtual CPU",
                                        "Provisioned Memory (MiB)"})}

\* host sheet varied (rows, one column missing), the VM sheet fixed
HostWorkbooks ==
    {("vInfo" :> Sheet(RvVmCols, BaseVms) @@ "vHost" :> Sheet(cols, MapSeq(q, RvHost))) :
        q \in HostSeqs,
        cols \in ColumnSets(RvHostCols, {"Cluster", "# CPU", "Cores per CPU", "# Memory"})}
    \cup
    {("VMs" :> Sheet(LoVmCols, MapSeq(BaseVms, LoVm))
        @@ "ESX Hosts" :> Sheet(cols, MapSeq(q, LoHost))) :
        q \in HostSeqs,
        cols \in ColumnSets(LoHostCols, {"Cluster", "CPU Sockets", "CPU Cores", "Memory (KiB)"})}

\* the sheets of a workbook varied: any set of these names, each sheet
\* well-formed
SheetFor(name) ==
    CASE name = "vInfo" -> Sheet(RvVmCols, BaseVms)
      [] name = "VMs" -> Sheet(LoVmCols, MapSeq(BaseVms, LoVm))
      [] name = "ESX Hosts" -> Sheet(LoHostCols, <<>>)
      [] name = "vHost" -> Sheet(RvHostCols, <<>>)
      [] OTHER -> Sheet({"Notes"}, <<>>)

FormatWorkbooks ==
    {[name \in names |-> SheetFor(name)] :
        names \in SUBSET {"vInfo", "VMs", "ESX Hosts", "vHost", "Summary"}}

\* the unit suffixes a capacity column may carry, and how many of the unit
\* make a terabyte
Units == {"MiB", "MB", "GiB", "GB", "TB"}
PerTB(u) == CASE u \in {"MiB", "MB"} -> Mi [] u \in {"GiB", "GB"} -> Ki [] OTHER -> 1

\* datastores: capacity in whole TB, space in use in MiB
StoreRows ==
    {[Name |-> Str("ds1"), tb |-> 1, used |-> Mi \div 2],
     [Name |-> Str("ds0"), tb |-> 0, used |-> Mi \div 2],
     [Name |-> Str("local-ds"), tb |-> 2, used |-> 0]}
StoreSeqs == SeqsUpTo(StoreRows, MaxStores)

\* a vDatastore sheet that states the capacity under the unit suffixes in
\* caps (the column of the unit blank left empty) and the space in use under
\* 'In Use MiB' when in_use
RvStore(q, caps, blank, in_use) ==
    LET cols == {"Name"} \cup {"Capacity " \o u : u \in caps}
                    \cup (IF in_use THEN {"In Use MiB"} ELSE {})
        Cell(r, c) ==
            IF c = "Name" THEN r.Name
            ELSE IF c = "In Use MiB" THEN Num(r.used)
            ELSE IF c = "Capacity " \o blank THEN NaN
            ELSE Num(r.tb * PerTB(CHOOSE u \in caps : c = "Capacity " \o u))
    IN  Table(cols, [i \in DOMAIN q |-> [c \in cols |-> Cell(q[i], c)]])

\* the capacity columns of a sheet: no, one or two unit suffixes, and with
\* two possibly one of them left empty
CapacityColumns ==
    {<<caps, "">> : caps \in {c \in SUBSET Units : Cardinality(c) <= 2}}
    \cup {<<caps, b>> : <<caps, b>> \in {c \in SUBSET Units : Cardinality(c) = 2} \X Units}

LoDevice(r) ==
    [c \in {"Device", "Capacity (GiB)", "Used Capacity (GiB)", "Free Capacity (GiB)"} |->
        CASE c = "Device" -> r.Name
          [] c = "Capacity (GiB)" -> Num(r.tb * Ki)
          [] c = "Used Capacity (GiB)" -> Num(r.used \div Ki)
          [] OTHER -> Num(Max(r.tb * Ki - r.used \div Ki, 0))]
LoDeviceCols == {"Device", "Capacity (GiB)", "Used Capacity (GiB)", "Free Capacity (GiB)"}

\* storage sheet varied, VM sheet fixed
StorageWorkbooks ==
    {("vInfo" :> Sheet(RvVmCols, BaseVms)
        @@ "vDatastore" :> RvStore(q, cb[1], cb[2], in_use)) :
        q \in StoreSeqs, cb \in {x \in CapacityColumns : x[2] = "" \/ x[2] \in x[1]},
        in_use \in BOOLEAN}
    \cup
    {("VMs" :> Sheet(LoVmCols, MapSeq(BaseVms, LoVm))
        @@ "ESX Hosts" :> Sheet(LoHostCols, <<>>)
        @@ "Host Devices" :> Sheet(cols, MapSeq(q, LoDevice))) :
        q \in StoreSeqs,
        cols \in ColumnSets(LoDeviceCols, {"Capacity (GiB)", "Used Capacity (GiB)",
                                            "Free Capacity (GiB)"})}

UploadVms == UploadFile(VmWorkbooks)
UploadHosts == UploadFile(HostWorkbooks)
UploadAnySheets == UploadFile(FormatWorkbooks)
UploadStorage == UploadFile(StorageWorkbooks)

\* cells of a capacity column typed as text, as a number or left empty
TextCells == {Num(2), Str("12"), Str("1,234"), Str("bad"), NaN}

\* workbooks whose vDatastore sheet states 'Capacity TB' in such cells
TextWorkbooks ==
    {("vInfo" :> Sheet(RvVmCols, BaseVms)
        @@ "vDatastore" :> Table({"Capacity TB"},
                                 [i \in DOMAIN q |-> [c \in {"Capacity TB"} |-> q[i]]])) :
        q \in SeqsUpTo(TextCells, MaxStores) \ {<<>>}}
UploadText == UploadFile(TextWorkbooks)

Next ==
    \/ UploadVms \/ UploadHosts \/ UploadAnySheets \/ UploadStorage \/ UploadText
    \/ RemoveFiles \/ SetIncludeOff \/ SelectCluster

Spec == Init /\ [][Next]_vars

----------------------------------------------------------------------------
(* Workbooks with a performance sheet, under the widgets that the
   performance recommendation reads *)

MaxPerfRows == 2

\* rows of an 'ESX Performance' sheet: GHz per host, by cluster
PerfRows ==
    {[c \in {"Cluster", "95th Percentile CPU (GHz)", "Peak CPU (GHz)", "Average CPU (GHz)"} |->
        CASE c = "Cluster" -> Str("A")
          [] c = "95th Percentile CPU (GHz)" -> Num(40)
          [] c = "Peak CPU (GHz)" -> Num(60)
          [] OTHER -> Num(20)],
     [c \in {"Cluster", "95th Percentile CPU (GHz)", "Peak CPU (GHz)", "Average CPU (GHz)"} |->
        CASE c = "Cluster" -> Str("B")
          [] c = "95th Percentile CPU (GHz)" -> Num(300)
          [] c = "Peak CPU (GHz)" -> Num(400)
          [] OTHER -> Num(150)]}
PerfCols == {"Cluster", "95th Percentile CPU (GHz)", "Peak CPU (GHz)", "Average CPU (GHz)"}

\* a Live Optics workbook with the performance sheet varied, one without
\* it, and an RVTools workbook that carries such a sheet
PerfWorkbooks ==
    {("VMs" :> Sheet(LoVmCols, MapSeq(BaseVms, LoVm))
        @@ "ESX Hosts" :> Sheet(LoHostCols, <<>>)
        @@ "ESX Performance" :> Sheet(cols, q)) :
        q \in SeqsUpTo(PerfRows, MaxPerfRows),
        cols \in ColumnSets(PerfCols, PerfCols)}
    \cup {"VMs" :> Sheet(LoVmCols, MapSeq(BaseVms, LoVm))
            @@ "ESX Hosts" :> Sheet(LoHostCols, <<>>)}
    \cup {"vInfo" :> Sheet(RvVmCols, BaseVms)
            @@ "ESX Performance" :> Sheet(PerfCols, q) : q \in SeqsUpTo(PerfRows, 1)}

UploadPerf == UploadFile(PerfWorkbooks)

NextPerf ==
    \/ UploadPerf \/ RemoveFiles \/ SelectCluster
    \/ SetClock \/ SetBasis \/ SetCpuBuffer \/ SetHaNodes \/ SetMinHosts

SpecPerf == Init /\ [][NextPerf]_vars

----------------------------------------------------------------------------
(* Claims on the sizing computation, checked under SpecSizing *)

Ran == status = "ok"
Facts == db[1]
Result == report_data[1]

\* C1: the current and the future final host count are max(rawHosts +
\* haNodes, minHosts), rawHosts being the larger of the CPU-derived and the
\* RAM-derived count: each is one of the two candidates and at least both
C1_FinalHosts ==
    Ran =>
        /\ Result.raw_hosts \in {Result.raw_hosts_cpu, Result.raw_hosts_ram}
        /\ Result.raw_hosts >= Result.raw_hosts_cpu
        /\ Result.raw_hosts >= Result.raw_hosts_ram
        /\ Result.hosts_now \in {Result.raw_hosts + ha_nodes, min_hosts}
        /\ Result.hosts_now >= min_hosts
        /\ Result.hosts_now >= Result.raw_hosts + ha_nodes
        /\ Result.hosts_fut \in {Result.fut_raw_hosts + ha_nodes, min_hosts}
        /\ Result.hosts_fut >= min_hosts
        /\ Result.hosts_fut >= Result.fut_raw_hosts + ha_nodes

\* a run where the HA-inflated count decides today and the future count is
\* larger still, with the CPU and RAM counts different
C1_Witness ==
    /\ Ran
    /\ ha_nodes > 0
    /\ Result.raw_hosts_cpu # Result.raw_hosts_ram
    /\ Result.hosts_now = Result.raw_hosts + ha_nodes
    /\ Result.hosts_now > min_hosts
    /\ Result.hosts_fut > Result.hosts_now

IsCeilOfCpuDemand(n, V) ==
    /\ n * vcpu_ratio.n * tgt_sockets * tgt_cores * (100 - cpu_buffer) >= V * vcpu_ratio.d * 100
    /\ (n - 1) * vcpu_ratio.n * tgt_sockets * tgt_cores * (100 - cpu_buffer) < V * vcpu_ratio.d * 100

C3_CeilValue == Ran => IsCeilOfCpuDemand(Result.raw_hosts_cpu, Facts.tot_vcpu)

C3_Monotone ==
    (/\ Ran /\ Ran'
     /\ vcpu_ratio' = vcpu_ratio /\ cpu_buffer' = cpu_buffer
     /\ tgt_sockets' = tgt_sockets /\ tgt_cores' = tgt_cores
     /\ Facts'.tot_vcpu >= Facts.tot_vcpu)
    => Result'.raw_hosts_cpu >= Result.raw_hosts_cpu

C4_ZeroGrowth == (Ran /\ growth = 0) => Result.hosts_fut = Result.hosts_now

\* zero growth over more than one year, the host count above the floor
C4_Witness ==
    /\ Ran /\ growth = 0 /\ years > 1
    /\ Result.hosts_now > min_hosts
    /\ Result.hosts_fut = Result.hosts_now

\* C17: the ratio metrics do not divide by zero.  The current ratio is 0
\* when the workbook states no physical cores and total vCPU / cores
\* otherwise; the HA-failure ratio is 0 when finalHosts - haNodes <= 0 and
\* total vCPU / ((finalHosts - haNodes) x cores per host) otherwise
C17_RatiosGuarded ==
    (uploaded_file # None) =>
        /\ Ran
        /\ IF Facts.cur_cores = 0 THEN Result.cur_ratio = RZero
           ELSE RMul(Result.cur_ratio, RInt(Facts.cur_cores)) = RInt(Facts.tot_vcpu)
        /\ IF Result.hosts_now - ha_nodes <= 0 THEN Result.ratio_fail = RZero
           ELSE RMul(Result.ratio_fail,
                     RInt((Result.hosts_now - ha_nodes) * tgt_sockets * tgt_cores))
                    = RInt(Facts.tot_vcpu)

\* an empty workload with the minimum cluster size no larger than the HA
\* tolerance, in a workbook without hosts: both denominators are zero
C17_Witness ==
    /\ Ran /\ Facts.tot_vms = 0
    /\ min_hosts <= ha_nodes /\ Result.hosts_now - ha_nodes = 0
    /\ Facts.cur_cores = 0
    /\ Result.ratio_fail = RZero /\ Result.cur_ratio = RZero

\* C18: the sized vCPU:pCPU ratios (today, today with the HA hosts failed
\* where hosts are left, and after growth) never exceed the configured
\* maximum vCPU:pCPU ratio
C18_RatiosWithinDesign ==
    Ran =>
        /\ RLeq(Result.ratio_now, vcpu_ratio)
        /\ Result.hosts_now - ha_nodes > 0 => RLeq(Result.ratio_fail, vcpu_ratio)
        /\ RLeq(Result.ratio_fut, vcpu_ratio)

\* a CPU-bound workload sized with no CPU overhead and no HA host, whose
\* demand fills the hosts exactly: the ratio today is the design ratio
C18_Witness ==
    /\ Ran /\ Result.constraint = "CPU" /\ cpu_buffer = 0 /\ ha_nodes = 0
    /\ Result.hosts_now = Result.raw_hosts_cpu /\ Result.hosts_now > min_hosts
    /\ Result.ratio_now = vcpu_ratio /\ Result.ratio_fail = vcpu_ratio
    /\ RLess(RZero, Result.ratio_fut)

\* C19: with growth >= 0 over at least one year the future host count is
\* never smaller than the current host count
C19_FutureNotSmaller ==
    Ran => (growth >= 0 /\ years >= 1 /\ Result.hosts_fut >= Result.hosts_now)

\* a workload that grows past the current host count
C19_Witness ==
    /\ Ran /\ growth > 0 /\ years > 1
    /\ Result.hosts_now > min_hosts
    /\ Result.hosts_fut > Result.hosts_now
    /\ Result.fut_raw_hosts > Result.raw_hosts

----------------------------------------------------------------------------
(* Claims on the adapters, checked under Spec *)

Loaded == uploaded_file # None
Workbook == uploaded_file[1]
Recognised == Loaded /\ source_type(Workbook) # "Unknown"
Selected == selected_cluster(Workbook, cluster_pick)

\* the VM rows and host rows in scope of the current run
ScopedVms ==
    IF source_type(Workbook) = "RVTools" THEN rv_info(Workbook, Selected, include_off)
    ELSE lo_vms(Workbook, Selected, include_off)
ScopedHosts ==
    IF source_type(Workbook) = "RVTools"
    THEN (IF HasSheet(Workbook, "vHost") THEN rv_df_h(Workbook, Selected) ELSE EmptyFrame)
    ELSE lo_hosts(Workbook, Selected)

\* the host rows in scope are well-formed: the columns the RVTools adapter
\* reads are there, and no socket or core count is empty or a text
HostsWellFormed ==
    \/ ScopedHosts.rows = <<>>
    \/ /\ source_type(Workbook) = "RVTools"
             => {"# CPU", "Cores per CPU", "# Memory"} \subseteq ScopedHosts.columns
       /\ \A i \in DOMAIN ScopedHosts.rows :
            \A c \in ScopedHosts.columns
                        \cap {"# CPU", "Cores per CPU", "CPU Sockets", "CPU Cores"} :
                IsNum(ScopedHosts.rows[i][c])

\* C5: an empty workload (no VM row in scope, whatever columns the VM sheet
\* has) over well-formed host rows completes without a fault: the totals and
\* both raw host counts are 0 and the final host count is
\* max(0 + haNodes, minHosts)
C5_EmptyWorkload ==
    (Recognised /\ ScopedVms.rows = <<>> /\ HostsWellFormed) =>
        /\ Ran
        /\ Facts.tot_vms = 0 /\ Facts.tot_vcpu = 0 /\ Facts.tot_ram = RZero
        /\ Result.raw_hosts_cpu = 0 /\ Result.raw_hosts_ram = 0
        /\ Result.hosts_now = Max(0 + ha_nodes, min_hosts)

\* a workbook whose VMs are all filtered out, the floor of 3 hosts deciding
C5_Witness ==
    /\ Recognised /\ Ran
    /\ Len(Workbook[IF source_type(Workbook) = "RVTools" THEN "vInfo" ELSE "VMs"].rows) > 0
    /\ ScopedVms.rows = <<>>
    /\ HostsWellFormed /\ Facts.cur_host_count > 0
    /\ min_hosts = 3 /\ ha_nodes = 1 /\ Result.hosts_now = 3

\* the licensing cores the claim expects: the valid rows' sockets x
\* max(cores per socket, 16), the other rows contributing 0
RECURSIVE ExpectedLicCores(_, _, _, _)
ExpectedLicCores(rows, sockets, cores, cores_is_total) ==
    IF rows = <<>> THEN 0
    ELSE LET r == Head(rows)
             valid == IsNum(r[sockets]) /\ IsNum(r[cores]) /\ r[sockets].n > 0
             per_socket == IF cores_is_total THEN r[cores].n \div r[sockets].n ELSE r[cores].n
         IN  (IF valid THEN r[sockets].n * Max(per_socket, LicenseFloor) ELSE 0)
             + ExpectedLicCores(Tail(rows), sockets, cores, cores_is_total)

HasHostColumns ==
    IF source_type(Workbook) = "RVTools"
    THEN {"# CPU", "Cores per CPU", "# Memory"} \subseteq ScopedHosts.columns
    ELSE {"CPU Sockets", "CPU Cores"} \subseteq ScopedHosts.columns

\* C6: in both adapters the current licensing cores are the sum over the
\* valid host rows in scope of sockets x max(cores per socket, 16); a row
\* with a missing or non-numeric field contributes 0 and aborts nothing
C6_LicensingSkipsBadRows ==
    (Recognised /\ uploaded_file[1] \in HostWorkbooks /\ HasHostColumns) =>
        /\ Ran
        /\ Result.cur_lic_cores =
              IF source_type(Workbook) = "RVTools"
              THEN ExpectedLicCores(ScopedHosts.rows, "# CPU", "Cores per CPU", FALSE)
              ELSE ExpectedLicCores(ScopedHosts.rows, "CPU Sockets", "CPU Cores", TRUE)

\* C7: summing a column that the table lacks gives exactly 0 and raises
\* nothing: the Live Optics facts read with safe_sum from an absent host
\* column are 0, and the run completes when 'CPU Cores' is the absent one
C7_MissingColumnSumsToZero ==
    (Recognised /\ source_type(Workbook) = "LiveOptics") =>
        /\ ("CPU Cores" \notin ScopedHosts.columns => Ran /\ Facts.cur_cores = 0)
        /\ (Ran /\ "Memory (KiB)" \notin ScopedHosts.columns
                => Facts.cur_total_ram_gb = RZero)
        /\ (Ran /\ HasSheet(Workbook, "Host Devices")
                /\ ~IsEmpty(Workbook["Host Devices"])
                /\ "Capacity (GiB)" \notin Workbook["Host Devices"].columns
                => Facts.ds.cap = RZero)

\* hosts in scope, their 'CPU Cores' column absent, the run complete
C7_Witness ==
    /\ Recognised /\ Ran /\ source_type(Workbook) = "LiveOptics"
    /\ Len(ScopedHosts.rows) > 0
    /\ "CPU Cores" \notin ScopedHosts.columns
    /\ Facts.cur_cores = 0 /\ Facts.tot_vcpu > 0

\* the capacity units of the datastore sheet in scope
CapacityUnits(df) == {u \in Units : ("Capacity " \o u) \in df.columns}

\* the TB-native sheet that states tb terabytes
TBNative(tb) == Table({"Capacity TB"}, <<[c \in {"Capacity TB"} |-> Num(tb)]>>)

C9_UnknownFormat ==
    (/\ Loaded
     /\ ~HasSheet(Workbook, "vInfo")
     /\ ~(HasSheet(Workbook, "VMs") /\ HasSheet(Workbook, "ESX Hosts")))
    => (status = "input_error" /\ db = None /\ report_data = None)

\* a workbook with a 'VMs' sheet but no 'ESX Hosts' sheet
C9_Witness ==
    /\ Loaded /\ HasSheet(Workbook, "VMs") /\ ~HasSheet(Workbook, "ESX Hosts")
    /\ ~HasSheet(Workbook, "vInfo")
    /\ status = "input_error" /\ db = None

\* a cell of the workbook that is empty or not a number where one is expected
HasMalformedCell(wb) ==
    \E name \in DOMAIN wb : \E i \in DOMAIN wb[name].rows : \E c \in wb[name].columns :
        IsNaN(wb[name].rows[i][c]) \/ wb[name].rows[i][c] = Str("bad")

\* C10: for a workbook of a recognised format whose cells are well-formed, a
\* missing optional sheet or a missing expected column never ends the run in
\* an error: the run completes, and the facts of a missing VM column are 0
C10_MissingDataDegrades ==
    (Recognised /\ ~HasMalformedCell(Workbook)) =>
        /\ Ran
        /\ (Facts.source = "RVTools" /\ "CPUs" \notin ScopedVms.columns
                => Facts.tot_vcpu = 0)
        /\ (Facts.source = "LiveOptics" /\ "Virtual CPU" \notin ScopedVms.columns
                => Facts.tot_vcpu = 0)

\* the conversion as the claim describes it: the variants in the order MiB,
\* MB, GiB, GB, TB, the first whose sum is not zero converted to terabytes
ClaimedVariants == <<"MiB", "MB", "GiB", "GB", "TB">>
ClaimedTB(df, base) ==
    LET Sum(i) == safe_sum(df, base \o " " \o ClaimedVariants[i])
        hits == {i \in DOMAIN ClaimedVariants : Sum(i) # 0}
    IN  IF hits = {} THEN RZero
        ELSE LET first == CHOOSE i \in hits : \A j \in hits : i <= j
             IN  Rat(Sum(first), PerTB(ClaimedVariants[first]))

\* C11: the capacity of the datastores is the converted sum of the first
\* variant, in the order MiB, MB, GiB, GB, TB, whose sum is not zero (a
\* present variant that sums to zero is passed over), and 0 only when no
\* variant has a nonzero sum
C11_FirstNonzeroVariant ==
    (Ran /\ Facts.source = "RVTools" /\ HasSheet(Workbook, "vDatastore")) =>
        Facts.ds.cap = ClaimedTB(rv_df_ds(Workbook, Selected), "Capacity")

\* the value the claim gives a cell: its number, the number its text spells
\* once the thousands separators are stripped, and zero otherwise
ClaimedValue(c) == LET v == to_numeric_commas(c) IN IF IsNum(v) THEN v.n ELSE 0

RECURSIVE ClaimedSum(_, _)
ClaimedSum(rows, col) ==
    IF rows = <<>> THEN 0 ELSE ClaimedValue(Head(rows)[col]) + ClaimedSum(Tail(rows), col)

\* C12: the sum of a present column counts a numeric text with thousands
\* separators ("1,234") at its numeric value and a non-numeric or empty cell
\* as zero, and raises nothing
C12_SumCoercesCells ==
    (Loaded /\ Workbook \in TextWorkbooks) =>
        /\ Ran
        /\ Facts.ds.cap = RInt(ClaimedSum(Workbook["vDatastore"].rows, "Capacity TB"))

\* the sheet the VM rows come from, its power-state column, and the host sheet
VmSheet == Workbook[IF source_type(Workbook) = "RVTools" THEN "vInfo" ELSE "VMs"]
PowerColumn == IF source_type(Workbook) = "RVTools" THEN "Powerstate" ELSE "Power State"
HostSheet ==
    IF source_type(Workbook) = "RVTools"
    THEN (IF HasSheet(Workbook, "vHost") THEN Workbook["vHost"] ELSE EmptyFrame)
    ELSE Workbook["ESX Hosts"]

\* a row of the sheet df belongs to the selected cluster scope
InClusterScope(df, row) ==
    ("Cluster" \in df.columns /\ Selected # ALL_CLUSTERS) => row["Cluster"] = Str(Selected)

\* a VM row counts under the power-state scope
InPowerScope(row) ==
    (PowerColumn \in VmSheet.columns /\ ~include_off) =>
        (IsStr(row[PowerColumn]) /\ row[PowerColumn].s \in PoweredOnStrings)

\* the rows of the sheets that the scope admits, in the sheet's order
VmsInScope == SelectSeq(VmSheet.rows, LAMBDA r : InClusterScope(VmSheet, r) /\ InPowerScope(r))
HostsInScope == SelectSeq(HostSheet.rows, LAMBDA r : InClusterScope(HostSheet, r))

\* C13: the rows the totals count are exactly the rows of the sheet inside
\* the selected cluster scope (and powered on, when powered-off VMs are
\* excluded), each as it is in the sheet: the VM count, vCPU total, host
\* count and core supply are the totals over those rows
C13_ScopeBeforeTotals ==
    Ran =>
        /\ \A i \in DOMAIN Facts.df_raw_vinfo.rows :
              LET row == Facts.df_raw_vinfo.rows[i]
              IN  /\ InClusterScope(VmSheet, row) /\ InPowerScope(row)
                  /\ \E j \in DOMAIN VmSheet.rows :
                        \A c \in VmSheet.columns : row[c] = VmSheet.rows[j][c]
        /\ Facts.tot_vms = Len(VmsInScope)
        /\ Facts.tot_vcpu =
              safe_sum(Table(VmSheet.columns, VmsInScope),
                       IF Facts.source = "RVTools" THEN "CPUs" ELSE "Virtual CPU")
        /\ Facts.cur_host_count = Len(HostsInScope)
        /\ Facts.source = "LiveOptics" =>
              Facts.cur_cores = safe_sum(Table(HostSheet.columns, HostsInScope), "CPU Cores")
        /\ (Facts.source = "RVTools" /\ HostsInScope # <<>>) =>
              Facts.cur_cores = SumProduct(HostsInScope, "# CPU", "Cores per CPU")

\* cluster A selected and powered-off VMs excluded, over a workbook with VMs
\* and hosts in both clusters: some rows of each sheet are left out
C13_Witness ==
    /\ Ran /\ Selected = "A" /\ ~include_off
    /\ 0 < Facts.tot_vms /\ Facts.tot_vms < Len(VmSheet.rows)
    /\ 0 < Facts.cur_host_count /\ Facts.cur_host_count < Len(HostSheet.rows)
    /\ \E i \in DOMAIN VmSheet.rows :
          VmSheet.rows[i]["Cluster"] = Str("A") /\ ~InPowerScope(VmSheet.rows[i])
    /\ Facts.cur_cores > 0 /\ Facts.tot_vcpu > 0

\* C14: every numeric total of the extracted facts is non-negative (the
\* cells of the model's workbooks are all non-negative), the free capacity
\* of the storage included, also when the space in use exceeds the capacity
\* or the sheet states no capacity
C14_TotalsNonNegative ==
    Ran =>
        /\ Facts.tot_vms >= 0 /\ Facts.tot_vcpu >= 0 /\ RLeq(RZero, Facts.tot_ram)
        /\ RLeq(RZero, Facts.vinfo_prov) /\ RLeq(RZero, Facts.vinfo_used)
        /\ Facts.cur_host_count >= 0 /\ Facts.cur_cores >= 0
        /\ RLeq(RZero, Facts.cur_total_ram_gb)
        /\ RLeq(RZero, Facts.cur_lic_cores.v)
        /\ RLeq(RZero, Facts.ds.cap) /\ RLeq(RZero, Facts.ds.used)
        /\ RLeq(RZero, Facts.ds.free)
        /\ RLeq(RZero, Facts.perf_ghz_demand)

\* the columns of the host sheet that state sockets, cores and RAM, and the
\* RAM unit per GB
SocketColumn == IF source_type(Workbook) = "RVTools" THEN "# CPU" ELSE "CPU Sockets"
CoreColumn == IF source_type(Workbook) = "RVTools" THEN "Cores per CPU" ELSE "CPU Cores"
RamColumn == IF source_type(Workbook) = "RVTools" THEN "# Memory" ELSE "Memory (KiB)"
RamPerGB == IF source_type(Workbook) = "RVTools" THEN Ki ELSE Ki * Ki

\* the host rows in scope state sockets, cores and RAM, each a number
HostsComplete ==
    /\ {SocketColumn, CoreColumn, RamColumn} \subseteq ScopedHosts.columns
    /\ \A i \in DOMAIN ScopedHosts.rows : \A c \in {SocketColumn, CoreColumn, RamColumn} :
          IsNum(ScopedHosts.rows[i][c])

\* the cores per socket of each host in scope
CoresPerSocket ==
    [i \in DOMAIN ScopedHosts.rows |->
        IF source_type(Workbook) = "RVTools" THEN RInt(ScopedHosts.rows[i][CoreColumn].n)
        ELSE Rat(ScopedHosts.rows[i][CoreColumn].n, ScopedHosts.rows[i][SocketColumn].n)]

\* C15: in both adapters the NUMA estimate is made of modes over the hosts
\* in scope: cores per socket is the mode of the hosts' cores per socket, RAM
\* per socket the mode of the hosts' RAM over the mode of their socket count
\* (no mean enters); both are zero for an empty host set
C15_NumaByMode ==
    (Ran /\ HostsComplete) =>
        IF ScopedHosts.rows = <<>>
        THEN Facts.cur_numa_cores_est = RZero /\ Facts.cur_numa_ram_est = RZero
        ELSE /\ Facts.cur_numa_cores_est = ModeOf(CoresPerSocket)[1]
             /\ Facts.cur_numa_ram_est =
                   RDiv(RDiv(ModeOf(NumbersOf(ScopedHosts.rows, RamColumn))[1], RInt(RamPerGB)),
                        ModeOf(NumbersOf(ScopedHosts.rows, SocketColumn))[1])

----------------------------------------------------------------------------
(* Claims on the performance recommendation, checked under SpecPerf *)

\* the GHz one target host offers the recommendation: sockets x cores x
\* clock, less the CPU overhead, filled to 0.8
UsableGHz ==
    RMul(RMul(RMul(RInt(tgt_sockets * tgt_cores), tgt_clock), Rat(100 - cpu_buffer, 100)),
         Rat(4, 5))

====
